---- MODULE Spec2Model ----
(***************************************************************************)
(* sys-peek: a periodic host-metrics reporter (src/sys-peek/src/main.rs).  *)
(*                                                                         *)
(* Four specifications over one set of variables:                          *)
(*   Spec       the polling loop of main and what it prints                *)
(*   SpecFmt    format_bytes applied to the used and total memory counts   *)
(*   SpecPower  report_power on each platform, over raw platform inputs    *)
(*   SpecCpu    calculate_usage over two counter snapshots (spec.md 4.1)   *)
(*                                                                         *)
(* A u64 is kept as its seven base-1024 digits, least significant first,   *)
(* because the values of interest (1024^4, 2^53, 2^64) exceed the range of *)
(* the model checker's integers.  A text is a sequence of one-character    *)
(* strings.                                                                *)
(***************************************************************************)
EXTENDS Integers, Sequences, FiniteSets, TLC

VARIABLES
    used_memory,   \* sys.used_memory(): the u64 handed to format_bytes
    total_memory,  \* sys.total_memory()
    used,          \* frame of format_bytes(used_memory) at its return
    total,         \* frame of format_bytes(total_memory) at its return
    pc,            \* the statement the program is at
    target_os,     \* the platform the binary was built for (#[cfg(target_os)])
    ac_online,     \* result of reading /sys/class/power_supply/AC/online
    capacity,      \* result of reading /sys/class/power_supply/BAT0/capacity
    pmset,         \* result of running `pmset -g batt` (its stdout)
    source,        \* report_power's local `source`
    percentage,    \* report_power's local `percentage`
    log,           \* the lines printed so far
    runs,          \* args.runs: NoRuns for None, else the number given
    count,         \* main's local `count`
    cur,           \* the host's cumulative CPU counters
    snap_start,    \* the CpuCounterSnapshot taken first
    snap_end,      \* the CpuCounterSnapshot taken after the settle interval
    usage          \* the result of calculate_usage(snap_start, snap_end)

fmtVars == <<used_memory, total_memory, used, total>>

powerVars == <<target_os, ac_online, capacity, pmset, source, percentage>>

cpuVars == <<cur, snap_start, snap_end, usage>>

vars == <<fmtVars, powerVars, cpuVars, pc, log, runs, count>>

(***************************************************************************)
(* u64 and f64 arithmetic on base-1024 digits                              *)
(***************************************************************************)
Base == 1024

U64Digits == 7

Idx == 1..U64Digits

Zero == [i \in Idx |-> 0]

\* c * 1024^k + e, for 0 <= k <= 6 and -1024 < e < 1024
Near(c, k, e) ==
    IF k = 0 THEN [i \in Idx |-> IF i = 1 THEN c + e ELSE 0]
    ELSE IF e >= 0
         THEN [i \in Idx |-> IF i = 1 THEN e
                             ELSE IF i = k + 1 THEN c ELSE 0]
         ELSE [i \in Idx |-> IF i = 1 THEN Base + e
                             ELSE IF i <= k THEN Base - 1
                             ELSE IF i = k + 1 THEN c - 1 ELSE 0]

\* index of the most significant non-zero digit, 0 for the number 0
RECURSIVE TopFrom(_, _)
TopFrom(d, i) == IF i = 0 THEN 0 ELSE IF d[i] # 0 THEN i ELSE TopFrom(d, i - 1)

Top(d) == TopFrom(d, U64Digits)

RECURSIVE BitLen(_)
BitLen(n) == IF n = 0 THEN 0 ELSE 1 + BitLen(n \div 2)

\* d < e as numbers, comparing from digit i downwards
RECURSIVE LessFrom(_, _, _)
LessFrom(d, e, i) ==
    IF i = 0 THEN FALSE
    ELSE IF d[i] # e[i] THEN d[i] < e[i]
    ELSE LessFrom(d, e, i - 1)

Less(d, e) == LessFrom(d, e, U64Digits)

Leq(d, e) == d = e \/ Less(d, e)

\* add the carry c into digit i and upwards; the top digit absorbs the rest
RECURSIVE Propagate(_, _, _)
Propagate(d, i, c) ==
    IF c = 0 THEN d
    ELSE IF i = U64Digits THEN [d EXCEPT ![i] = d[i] + c]
    ELSE Propagate([d EXCEPT ![i] = (d[i] + c) % Base], i + 1, (d[i] + c) \div Base)

\* a truncating cast, `bytes as u32 as f64`: the low 32 bits only
ToF64Trunc(d) == [i \in Idx |-> IF i <= 3 THEN d[i] ELSE IF i = 4 THEN d[i] % 4 ELSE 0]

\* `bytes as f64`: round to nearest, ties to even, on a 53-bit significand.
\* The result is an integer, kept as digits (the top digit may reach 16: 2^64).
F64Mant == 53

ToF64(d) ==
    LET t == Top(d)
        len == IF t = 0 THEN 0 ELSE 10 * (t - 1) + BitLen(d[t])
    IN  IF len <= F64Mant THEN d
        ELSE LET s == len - F64Mant
                 two == d[1] + Base * d[2]
                 low == two % (2 ^ s)
                 half == 2 ^ (s - 1)
                 odd == (two \div (2 ^ s)) % 2 = 1
                 up == low > half \/ (low = half /\ odd)
                 kept == two - low + (IF up THEN 2 ^ s ELSE 0)
                 cleared == [d EXCEPT ![1] = kept % Base, ![2] = (kept \div Base) % Base]
             IN  Propagate(cleared, 3, kept \div (Base * Base))

(***************************************************************************)
(* format_bytes                                                            *)
(***************************************************************************)
units == <<"B", "KB", "MB", "GB", "TB">>

\* An f64 reached from an integer by divisions by 1024.0 (each exact):
\* the number  mant / 1024^exp.
F64(mant, exp) == [mant |-> mant, exp |-> exp]

\* f_bytes >= 1024.0
Ge1024(f) == Top(f.mant) >= f.exp + 2

\* f_bytes /= 1024.0
Div1024(f) == F64(f.mant, f.exp + 1)

\* the loop with `f_bytes > 1024.0` for its first condition
RECURSIVE FmtLoopGt(_, _)
FmtLoopGt(f_bytes, n) ==
    IF Ge1024(f_bytes) /\ f_bytes.mant # Near(1, f_bytes.exp + 1, 0)
       /\ n < Len(units) - 1
    THEN FmtLoopGt(Div1024(f_bytes), n + 1)
    ELSE [f_bytes |-> f_bytes, count |-> n]

\* the while loop of format_bytes, from the locals f_bytes and count (n)
RECURSIVE FmtLoop(_, _)
FmtLoop(f_bytes, n) ==
    IF Ge1024(f_bytes) /\ n < Len(units) - 1
    THEN FmtLoop(Div1024(f_bytes), n + 1)
    ELSE [f_bytes |-> f_bytes, count |-> n]

\* integer part of f
RECURSIVE WholeFrom(_, _)
WholeFrom(f, i) ==
    IF i > U64Digits THEN 0 ELSE f.mant[i] + Base * WholeFrom(f, i + 1)

Whole(f) == WholeFrom(f, f.exp + 1)

\* 100 * (fractional part of f), as carry (its integer part) and rem (the
\* digits of what is left, least significant first); digits 1..i are done
RECURSIVE CentsFrom(_, _, _, _)
CentsFrom(f, i, c, rem) ==
    IF i > f.exp THEN [carry |-> c, rem |-> rem]
    ELSE CentsFrom(f, i + 1, (100 * f.mant[i] + c) \div Base,
                   Append(rem, (100 * f.mant[i] + c) % Base))

\* "{:.2}": the value in hundredths, the exact decimal expansion rounded to
\* two places, a tie going to the even digit
Fixed2(f) ==
    LET cs == CentsFrom(f, 1, 0, <<>>)
        n == Len(cs.rem)
        floorH == 100 * Whole(f) + cs.carry
        lowerZero == \A i \in 1..(n - 1) : cs.rem[i] = 0
        up == /\ n > 0
              /\ \/ cs.rem[n] > Base \div 2
                 \/ cs.rem[n] = Base \div 2 /\ ~lowerZero
                 \/ cs.rem[n] = Base \div 2 /\ lowerZero /\ floorH % 2 = 1
    IN  floorH + (IF up THEN 1 ELSE 0)

\* hundredths h as text with two decimals
Render2(h) ==
    ToString(h \div 100) \o "." \o ToString((h % 100) \div 10) \o ToString(h % 10)

\* format!("{:.2} {}", f_bytes, units[count])
FormatLine(f_bytes, n) == Render2(Fixed2(f_bytes)) \o " " \o units[n + 1]

\* the frame of format_bytes(bytes) at its return: the locals and the String
format_bytes(bytes) ==
    LET fin == FmtLoop(F64(ToF64(bytes), 0), 0)
    IN  [f_bytes |-> fin.f_bytes, count |-> fin.count,
         text |-> FormatLine(fin.f_bytes, fin.count)]

(***************************************************************************)
(* report_power                                                            *)
(***************************************************************************)
\* a Result<String, _>: Ok(text) or Err(_)
Ok(t) == [ok |-> TRUE, text |-> t]

Err == [ok |-> FALSE, text |-> <<>>]

\* char::is_whitespace, on the characters the texts are drawn from
IsWhitespace(c) == c \in {" ", "\n", "\t"}

\* str::trim
RECURSIVE TrimStart(_)
TrimStart(s) ==
    IF s # <<>> /\ IsWhitespace(Head(s)) THEN TrimStart(Tail(s)) ELSE s

RECURSIVE TrimEnd(_)
TrimEnd(s) ==
    IF s # <<>> /\ IsWhitespace(s[Len(s)])
    THEN TrimEnd(SubSeq(s, 1, Len(s) - 1)) ELSE s

Trim(s) == TrimEnd(TrimStart(s))

\* an Option<usize> is the index, counted from 0, or NoIdx for None
NoIdx == -1

\* s.find('%')
RECURSIVE FindFrom(_, _, _)
FindFrom(s, c, i) ==
    IF i >= Len(s) THEN NoIdx
    ELSE IF s[i + 1] = c THEN i ELSE FindFrom(s, c, i + 1)

Find(s, c) == FindFrom(s, c, 0)

\* s.rfind(|c: char| c.is_whitespace())
RECURSIVE RFindWsFrom(_, _)
RFindWsFrom(s, i) ==
    IF i < 0 THEN NoIdx
    ELSE IF IsWhitespace(s[i + 1]) THEN i ELSE RFindWsFrom(s, i - 1)

RFindWhitespace(s) == RFindWsFrom(s, Len(s) - 1)

\* s.contains(pat)
Contains(s, pat) ==
    \E i \in 0..(Len(s) - Len(pat)) : SubSeq(s, i + 1, i + Len(pat)) = pat

\* a panic, in place of the value an expression would have had
Panic == <<"panic!">>

\* &s[a..b], which panics when the range does not lie in s
Slice(s, a, b) == IF 0 <= a /\ a <= b /\ b <= Len(s) THEN SubSeq(s, a + 1, b) ELSE Panic

NA == <<"N", "/", "A">>

AcPowerPat == <<"A", "C", " ", "P", "o", "w", "e", "r">>

\* the source with the indicator compared untrimmed (s == "1")
LinuxSourceNoTrim(ac) ==
    IF ac.ok THEN (IF ac.text = <<"1">> THEN "AC" ELSE "Battery") ELSE "Unknown"

\* Linux: source from the AC-online indicator
LinuxSource(ac) ==
    IF ac.ok THEN (IF Trim(ac.text) = <<"1">> THEN "AC" ELSE "Battery") ELSE "Unknown"

\* the capacity read with .unwrap() in place of `if let Ok`
LinuxChargeUnwrap(cap, percentage0) ==
    IF cap.ok THEN Trim(cap.text) \o <<"%">> ELSE Panic

\* Linux: percentage from the battery capacity; percentage0 is its value so far
LinuxCharge(cap, percentage0) ==
    IF cap.ok THEN Trim(cap.text) \o <<"%">> ELSE percentage0

\* macOS: source from the text of pmset
PmsetSource(s) == IF Contains(s, AcPowerPat) THEN "AC" ELSE "Battery"

\* the percentage taken at the last '%' of the text
PmsetChargeLast(s, percentage0) ==
    LET rev == [i \in 1..Len(s) |-> s[Len(s) + 1 - i]]
        idx == IF Find(rev, "%") = NoIdx THEN NoIdx ELSE Len(s) - 1 - Find(rev, "%")
    IN  IF idx = NoIdx THEN percentage0
        ELSE LET at == RFindWhitespace(SubSeq(s, 1, idx))
                 from == IF at = NoIdx THEN 0 ELSE at
                 cut == Slice(s, from, idx + 1)
             IN  IF cut = Panic THEN Panic ELSE Trim(cut)

\* macOS: percentage from the text of pmset; percentage0 is its value so far
PmsetCharge(s, percentage0) ==
    LET idx == Find(s, "%")
    IN  IF idx = NoIdx THEN percentage0
        ELSE LET at == RFindWhitespace(SubSeq(s, 1, idx))
                 from == IF at = NoIdx THEN 0 ELSE at
                 cut == Slice(s, from, idx + 1)
             IN  IF cut = Panic THEN Panic ELSE Trim(cut)

\* the locals of report_power when it reaches its println! calls; percentage
\* is Panic if the function panicked before them
report_power(os, ac, cap, out) ==
    LET source0 == "Unknown"
        percentage0 == NA
    IN  IF os = "linux"
        THEN [source |-> LinuxSource(ac), percentage |-> LinuxCharge(cap, percentage0)]
        ELSE IF os = "macos"
        THEN IF out.ok
             THEN [source |-> PmsetSource(out.text),
                   percentage |-> PmsetCharge(out.text, percentage0)]
             ELSE [source |-> source0, percentage |-> percentage0]
        ELSE [source |-> source0, percentage |-> percentage0]

(***************************************************************************)
(* calculate_usage (spec.md 4.1; the source under src/ has no such code)   *)
(***************************************************************************)
Fields == {"user", "nice", "system", "idle", "iowait", "irq", "softirq"}

RECURSIVE SumOver(_, _)
SumOver(snap, fs) ==
    IF fs = {} THEN 0
    ELSE LET f == CHOOSE g \in fs : TRUE IN snap[f] + SumOver(snap, fs \ {f})

\* total time of a snapshot: the sum of all seven counters
Total(snap) == SumOver(snap, Fields)

IdleOf(snap) == snap["idle"] + snap["iowait"]

\* a usage: the quotient num / den of the floating-point division
Ratio(num, den) == [num |-> num, den |-> den]

NoUsage == Ratio(0, 1)

\* delta_idle without the start snapshot's iowait
DeltaIdleNoIowait(s, e) == IdleOf(e) - s["idle"]

DeltaIdle(s, e) == IdleOf(e) - IdleOf(s)

\* the usage without the zero-delta guard
calculate_usage_unguarded(s, e) ==
    LET delta_total == Total(e) - Total(s)
        delta_idle == DeltaIdle(s, e)
    IN  Ratio(100 * (delta_total - delta_idle), delta_total)

calculate_usage(s, e) ==
    LET delta_total == Total(e) - Total(s)
        delta_idle == DeltaIdle(s, e)
    IN  IF delta_total = 0 THEN Ratio(0, 1)
        ELSE Ratio(100 * (delta_total - delta_idle), delta_total)

(***************************************************************************)
(* The variables a specification does not use keep these values           *)
(***************************************************************************)
\* a frame before its call returns
NoFrame == [f_bytes |-> F64(Zero, 0), count |-> 0, text |-> ""]

FmtIdle ==
    /\ used_memory = Zero
    /\ total_memory = Zero
    /\ used = NoFrame
    /\ total = NoFrame

PowerIdle ==
    /\ target_os = "other"
    /\ ac_online = Err
    /\ capacity = Err
    /\ pmset = Err
    /\ source = ""
    /\ percentage = <<>>

NoSnapshot == [f \in Fields |-> 0]

CpuIdle ==
    /\ cur = NoSnapshot
    /\ snap_start = NoSnapshot
    /\ snap_end = NoSnapshot
    /\ usage = NoUsage

NoRuns == -1

MainIdle ==
    /\ log = <<>>
    /\ runs = NoRuns
    /\ count = 0

(***************************************************************************)
(* SpecFmt: main formats the used and the total memory count               *)
(***************************************************************************)
\* how far around each unit boundary the byte counts are drawn
Slack == 5

\* 1024^k, 1023 * 1024^k, 2^53 (the last integer before `as f64` rounds)
\* and 2^64, each with the counts around it; 0; 1500 and 1152 (a two-decimal
\* tie in KB); 2^60 + 128 and 2^60 + 384 (ties of the f64 rounding)
ByteInputs ==
    {Zero, Near(1, 1, 476), Near(1, 1, 128), Near(1, 6, 128), Near(1, 6, 384)}
    \cup {Near(1, k, e) : k \in 1..(U64Digits - 1), e \in (0 - Slack)..Slack}
    \cup {Near(Base - 1, k, e) : k \in 1..(U64Digits - 2), e \in (0 - Slack)..Slack}
    \cup {Near(1, 0, e) : e \in 0..Slack}
    \cup {Near(8, 5, e) : e \in (0 - Slack)..Slack}
    \cup {Near(16, 6, 0 - m) : m \in 1..Slack}

InitFmt ==
    /\ used_memory \in ByteInputs
    /\ total_memory \in ByteInputs
    /\ used = NoFrame
    /\ total = NoFrame
    /\ pc = "fmt_used"
    /\ PowerIdle /\ CpuIdle /\ MainIdle

\* let used = format_bytes(sys.used_memory());
FormatUsed ==
    /\ pc = "fmt_used"
    /\ used' = format_bytes(used_memory)
    /\ pc' = "fmt_total"
    /\ UNCHANGED <<used_memory, total_memory, total, powerVars, cpuVars, log, runs, count>>

\* let total = format_bytes(sys.total_memory());
FormatTotal ==
    /\ pc = "fmt_total"
    /\ total' = format_bytes(total_memory)
    /\ pc' = "fmt_done"
    /\ UNCHANGED <<used_memory, total_memory, used, powerVars, cpuVars, log, runs, count>>

NextFmt == FormatUsed \/ FormatTotal

SpecFmt == InitFmt /\ [][NextFmt]_vars

(***************************************************************************)
(* SpecPower: report_power on each platform, over raw platform inputs      *)
(***************************************************************************)
\* longest content of a sysfs file, longest tail of a pmset text
MaxFile == 3

MaxBody == 4

SeqsUpTo(A, n) == UNION {[1..m -> A] : m \in 0..n}

\* the text the test test_macos_pmset_parsing_logic parses
MockOutput ==
    <<"N", "o", "w", " ", "d", "r", "a", "w", "i", "n", "g", " ", "f", "r",
      "o", "m", " ", "'", "A", "C", " ", "P", "o", "w", "e", "r", "'",
      "\n", " ", "-", "I", "n", "t", "e", "r", "n", "a", "l", "B", "a",
      "t", "t", "e", "r", "y", "-", "0", " ", "(", "i", "d", "=", "1", "2",
      "3", ")", " ", "9", "5", "%", ";", " ", "c", "h", "a", "r", "g", "i",
      "n", "g", ";", " ", "0", ":", "4", "5", " ", "r", "e", "m", "a", "i",
      "n", "i", "n", "g">>

AcHeader == AcPowerPat \o <<"\n">>

BatteryHeader == <<"B", "a", "t", "t", "e", "r", "y", " ", "P", "o", "w", "e", "r", "\n">>

AcInputs == {Err} \cup {Ok(t) : t \in SeqsUpTo({"1", "0", "\n"}, MaxFile)}

CapInputs == {Err} \cup {Ok(t) : t \in SeqsUpTo({"8", "x", "\n"}, MaxFile)}

PmsetInputs ==
    {Err, Ok(MockOutput)}
    \cup {Ok(h \o b) : h \in {<<>>, AcHeader, BatteryHeader},
                       b \in SeqsUpTo({"9", "%", " ", "\n", ";"}, MaxBody)}

InitPower ==
    /\ target_os \in {"linux", "macos", "other"}
    /\ ac_online \in IF target_os = "linux" THEN AcInputs ELSE {Err}
    /\ capacity \in IF target_os = "linux" THEN CapInputs ELSE {Err}
    /\ pmset \in IF target_os = "macos" THEN PmsetInputs ELSE {Err}
    /\ source = ""
    /\ percentage = <<>>
    /\ pc = "power"
    /\ FmtIdle /\ CpuIdle /\ MainIdle

\* the text of a sequence of characters
RECURSIVE Join(_)
Join(s) == IF s = <<>> THEN "" ELSE Head(s) \o Join(Tail(s))

Line(label, value) == [label |-> label, value |-> value]

\* the two lines left out when the source is Unknown
PowerLinesUnlessUnknown(src, pct) ==
    IF src = "Unknown" THEN <<>>
    ELSE <<Line("Power Source", src), Line("Charge", Join(pct))>>

\* println!("Power Source:   {}", source); println!("Charge:         {}", percentage);
PowerLines(src, pct) == <<Line("Power Source", src), Line("Charge", Join(pct))>>

\* report_power() on the inputs the platform holds
ReportPowerOn ==
    /\ pc = "power"
    /\ LET r == report_power(target_os, ac_online, capacity, pmset)
       IN  /\ source' = r.source
           /\ percentage' = r.percentage
           /\ IF r.percentage = Panic
              THEN pc' = "panic" /\ log' = log
              ELSE pc' = "power_done" /\ log' = log \o PowerLines(r.source, r.percentage)
    /\ UNCHANGED <<target_os, ac_online, capacity, pmset, fmtVars, cpuVars, runs, count>>

NextPower == ReportPowerOn

SpecPower == InitPower /\ [][NextPower]_vars

(***************************************************************************)
(* SpecCpu: two snapshots of the host's counters and their usage           *)
(***************************************************************************)
\* the most time units the host's counters hold in total
MaxTicks == 3

InitCpu ==
    /\ cur = NoSnapshot
    /\ snap_start = NoSnapshot
    /\ snap_end = NoSnapshot
    /\ usage = NoUsage
    /\ pc = "cpu_start"
    /\ FmtIdle /\ PowerIdle /\ MainIdle

\* the host spends one time unit in state f
Tick(f) ==
    /\ pc \in {"cpu_start", "cpu_settle"}
    /\ Total(cur) < MaxTicks
    /\ cur' = [cur EXCEPT ![f] = @ + 1]
    /\ UNCHANGED <<snap_start, snap_end, usage, pc, fmtVars, powerVars, log, runs, count>>

\* the counters start again from zero (wraparound or reset)
CounterReset ==
    /\ pc = "cpu_settle"
    /\ cur # NoSnapshot
    /\ cur' = NoSnapshot
    /\ UNCHANGED <<snap_start, snap_end, usage, pc, fmtVars, powerVars, log, runs, count>>

AcquireStart ==
    /\ pc = "cpu_start"
    /\ snap_start' = cur
    /\ pc' = "cpu_settle"
    /\ UNCHANGED <<cur, snap_end, usage, fmtVars, powerVars, log, runs, count>>

AcquireEnd ==
    /\ pc = "cpu_settle"
    /\ snap_end' = cur
    /\ pc' = "cpu_calc"
    /\ UNCHANGED <<cur, snap_start, usage, fmtVars, powerVars, log, runs, count>>

Calculate ==
    /\ pc = "cpu_calc"
    /\ usage' = calculate_usage(snap_start, snap_end)
    /\ pc' = "cpu_done"
    /\ UNCHANGED <<cur, snap_start, snap_end, fmtVars, powerVars, log, runs, count>>

NextCpu ==
    \/ \E f \in Fields : Tick(f)
    \/ CounterReset
    \/ AcquireStart
    \/ AcquireEnd
    \/ Calculate

SpecCpu == InitCpu /\ [][NextCpu]_vars

(***************************************************************************)
(* Spec: the polling loop of main                                          *)
(***************************************************************************)
\* the largest --runs drawn, and the snapshots after which the model stops
\* following a run.  count is a u32; a run of MaxSnapshots snapshots stays
\* far below 2^32, so count + 1 and count += 1 do not overflow within it.
MaxRuns == 3

MaxSnapshots == 4

\* what sysinfo reports for (used_memory, total_memory)
MemSamples == {<<Near(1, 1, 476), Near(1, 3, 0)>>, <<Near(1, 2, -1), Near(1, 2, 0)>>}

\* what the platform answers to report_power's reads
FewAc == {Err, Ok(<<"1", "\n">>)}

FewCap == {Err, Ok(<<"8", "5", "\n">>)}

FewPmset == {Err, Ok(MockOutput), Ok(<<"?">>)}

Init ==
    /\ runs \in {NoRuns} \cup 0..MaxRuns
    /\ count = 0
    /\ log = <<>>
    /\ pc = "header"
    /\ target_os \in {"linux", "macos", "other"}
    /\ ac_online = Err
    /\ capacity = Err
    /\ pmset = Err
    /\ source = ""
    /\ percentage = <<>>
    /\ FmtIdle /\ CpuIdle

\* println!("--- Snapshot {} ---", count + 1);
PrintHeader ==
    /\ pc = "header"
    /\ count < MaxSnapshots
    /\ log' = Append(log, Line("Snapshot", ToString(count + 1)))
    /\ pc' = "cpu"
    /\ UNCHANGED <<fmtVars, powerVars, cpuVars, runs, count>>

\* the refreshes of sys, and println!("CPU Usage:      {:.2}%", ...)
PrintCpu ==
    /\ pc = "cpu"
    /\ \E m \in MemSamples : used_memory' = m[1] /\ total_memory' = m[2]
    /\ log' = Append(log, Line("CPU Usage", "sysinfo"))
    /\ pc' = "memory"
    /\ UNCHANGED <<used, total, powerVars, cpuVars, runs, count>>

\* println!("Memory:         {} / {} used", used, total);
PrintMemory ==
    /\ pc = "memory"
    /\ used' = format_bytes(used_memory)
    /\ total' = format_bytes(total_memory)
    /\ log' = Append(log, Line("Memory", used'.text \o " / " \o total'.text \o " used"))
    /\ pc' = "report_power"
    /\ UNCHANGED <<used_memory, total_memory, powerVars, cpuVars, runs, count>>

\* report_power();
ReportPower ==
    /\ pc = "report_power"
    /\ ac_online' \in IF target_os = "linux" THEN FewAc ELSE {Err}
    /\ capacity' \in IF target_os = "linux" THEN FewCap ELSE {Err}
    /\ pmset' \in IF target_os = "macos" THEN FewPmset ELSE {Err}
    /\ LET r == report_power(target_os, ac_online', capacity', pmset')
       IN  /\ source' = r.source
           /\ percentage' = r.percentage
           /\ IF r.percentage = Panic
              THEN pc' = "panic" /\ log' = log
              ELSE pc' = "count" /\ log' = log \o PowerLines(r.source, r.percentage)
    /\ UNCHANGED <<target_os, fmtVars, cpuVars, runs, count>>

\* count += 1; if let Some(max) = args.runs { if count >= max { break; } }
CountAndTest ==
    /\ pc = "count"
    /\ count' = count + 1
    /\ pc' = IF runs # NoRuns /\ count' >= runs THEN "done" ELSE "sleep"
    /\ UNCHANGED <<fmtVars, powerVars, cpuVars, log, runs>>

\* thread::sleep(Duration::from_secs(args.interval)); println!();
SleepAndBlank ==
    /\ pc = "sleep"
    /\ log' = Append(log, Line("", ""))
    /\ pc' = "header"
    /\ UNCHANGED <<fmtVars, powerVars, cpuVars, runs, count>>

Next ==
    \/ PrintHeader
    \/ PrintCpu
    \/ PrintMemory
    \/ ReportPower
    \/ CountAndTest
    \/ SleepAndBlank

Spec == Init /\ [][Next]_vars

\* The model agrees with the test test_format_bytes_logic, and with the
\* casts and renderings worked out by hand for some further counts.
TestFormatBytes ==
    /\ format_bytes(Zero).text = "0.00 B"
    /\ format_bytes(Near(1, 1, -1)).text = "1023.00 B"
    /\ format_bytes(Near(1, 1, 0)).text = "1.00 KB"
    /\ format_bytes(Near(1, 2, 0)).text = "1.00 MB"
    /\ format_bytes(Near(1, 3, 0)).text = "1.00 GB"
    /\ format_bytes(Near(1, 1, 476)).text = "1.46 KB"
    /\ format_bytes(Near(1, 1, 128)).text = "1.12 KB"
    /\ format_bytes(Near(1, 2, -1)).text = "1024.00 KB"
    /\ format_bytes(Near(16, 6, -1)).text = "16777216.00 TB"
    /\ format_bytes(Near(1, 5, 0)).text = "1024.00 TB"
    /\ format_bytes(Near(1, 4, 1)).text = "1.00 TB"
    /\ ToF64(Near(8, 5, 1)) = Near(8, 5, 0)
    /\ ToF64(Near(8, 5, 3)) = Near(8, 5, 4)
    /\ ToF64(Near(1, 6, 128)) = Near(1, 6, 0)
    /\ ToF64(Near(1, 6, 384)) = Near(1, 6, 512)
    /\ ToF64(Near(1, 6, 129)) = Near(1, 6, 256)

(***************************************************************************)
(* Claims about format_bytes (checked under SpecFmt)                       *)
(***************************************************************************)
Pow1024(k) == Near(1, k, 0)

\* the largest k in 0..4 with 1024^k <= b (0 when b < 1024)
UnitRank(b) ==
    CHOOSE k \in 0..(Len(units) - 1) :
        /\ k = 0 \/ Leq(Pow1024(k), b)
        /\ k = Len(units) - 1 \/ Less(b, Pow1024(k + 1))

C1_Frame(b, fr) ==
    /\ fr.count = UnitRank(b)
    /\ b = Near(1, 1, -1) => fr.text = "1023.00 B"
    /\ \A k \in 1..(Len(units) - 1) :
           b = Pow1024(k) => fr.text = "1.00 " \o units[k + 1]
    /\ Leq(Pow1024(Len(units)), b) =>
           /\ fr.count = Len(units) - 1
           /\ Whole(fr.f_bytes) >= Base
           /\ Fixed2(fr.f_bytes) >= 100 * Base

LexLeq(a, b) ==
    \/ a.count < b.count
    \/ /\ a.count = b.count
       /\ a.f_bytes.exp = b.f_bytes.exp
       /\ Leq(a.f_bytes.mant, b.f_bytes.mant)

\* C7: for byte counts b1 < b2 the pair (unit rank, scaled value) of
\* format_bytes(b2) is lexicographically greater than or equal to that of
\* format_bytes(b1).
C7_UnitMonotone ==
    pc = "fmt_done" =>
        /\ Less(used_memory, total_memory) => LexLeq(used, total)
        /\ Less(total_memory, used_memory) => LexLeq(total, used)

\* two different counts above 2^53 that `as f64` maps to one value
C7_Witness ==
    /\ pc = "fmt_done"
    /\ Less(used_memory, total_memory)
    /\ used.count = total.count
    /\ used.f_bytes = total.f_bytes

\* C10: whenever format_bytes uses a unit below TB, the rendered two-decimal
\* value is strictly less than 1024.00.
C10_RenderedBelow1024 ==
    pc \in {"fmt_total", "fmt_done"} /\ used.count < Len(units) - 1
        => Fixed2(used.f_bytes) < 100 * Base

(***************************************************************************)
(* Claims about report_power (checked under SpecPower)                     *)
(***************************************************************************)
HasPercent(t) == \E i \in 1..Len(t) : t[i] = "%"

\* a read or parse failure of the platform power source
PowerFailure ==
    \/ target_os = "linux" /\ (~ac_online.ok \/ ~capacity.ok)
    \/ target_os = "macos" /\ ~pmset.ok
    \/ target_os = "macos" /\ pmset.ok /\ ~HasPercent(pmset.text)
           /\ ~Contains(pmset.text, <<"P", "o", "w", "e", "r">>)

\* C2 as stated: on any read or parse failure, in both strategies, the
\* status is source = Unknown and charge = N/A, and nothing propagates.
C2_AnyFailureUnknownNA ==
    pc # "power" /\ PowerFailure =>
        pc = "power_done" /\ source = "Unknown" /\ percentage = NA

\* C2 as amended: a failed read degrades the field it feeds, and nothing
\* propagates.  Strategy A: an unreadable AC-online file gives source =
\* Unknown, an unreadable capacity file gives charge = N/A.  Strategy B: a
\* command that cannot be run gives Unknown and N/A; text without a '%'
\* gives charge = N/A, the source being AC or Battery.  On every platform
\* both lines are printed and report_power does not panic.
C2_FailureDegradesItsField ==
    pc # "power" =>
        /\ pc = "power_done"
        /\ log = PowerLines(source, percentage)
        /\ target_os = "linux" /\ ~ac_online.ok => source = "Unknown"
        /\ target_os = "linux" /\ ~capacity.ok => percentage = NA
        /\ target_os = "macos" /\ ~pmset.ok => source = "Unknown" /\ percentage = NA
        /\ target_os = "macos" /\ pmset.ok /\ ~HasPercent(pmset.text) =>
               percentage = NA /\ source \in {"AC", "Battery"}
        /\ target_os = "other" => source = "Unknown" /\ percentage = NA

C2_Witness ==
    /\ pc = "power_done"
    /\ target_os = "linux"
    /\ ~ac_online.ok
    /\ ~capacity.ok
    /\ log = <<Line("Power Source", "Unknown"), Line("Charge", "N/A")>>

\* C3: in Strategy B, a text without '%' gives charge N/A; otherwise the
\* charge is the text from just after the nearest whitespace before the
\* first '%' (from the start of the text when there is none) up to and
\* including that '%'; what follows the first '%' plays no part.
C3_FirstPercentToken ==
    target_os = "macos" /\ pc # "power" /\ pmset.ok =>
        LET t == pmset.text
        IN  IF ~HasPercent(t) THEN percentage = NA
            ELSE LET p == CHOOSE i \in 1..Len(t) :
                              t[i] = "%" /\ \A j \in 1..(i - 1) : t[j] # "%"
                 IN  \E j \in 1..p :
                        /\ percentage = SubSeq(t, j, p)
                        /\ \A k \in j..p : ~IsWhitespace(t[k])
                        /\ j = 1 \/ IsWhitespace(t[j - 1])

\* a token after whitespace, followed by a field and a second '%'
C3_Witness ==
    /\ pc = "power_done"
    /\ target_os = "macos"
    /\ pmset = Ok(AcHeader \o <<"9", "%", ";", "%">>)
    /\ source = "AC"
    /\ percentage = <<"9", "%">>

\* t is whitespace around a single "1"
Truthy(t) ==
    \E i \in 1..Len(t) :
        t[i] = "1" /\ \A j \in 1..Len(t) : j # i => IsWhitespace(t[j])

\* u is t without the whitespace at its two ends
Stripped(t, u) ==
    \E i \in 1..(Len(t) + 1), j \in 0..Len(t) :
        /\ u = SubSeq(t, i, j)
        /\ \A k \in 1..(i - 1) : IsWhitespace(t[k])
        /\ \A k \in (j + 1)..Len(t) : IsWhitespace(t[k])
        /\ i <= j => ~IsWhitespace(t[i]) /\ ~IsWhitespace(t[j])

\* C4: in Strategy A the source is AC if the indicator is truthy, Battery
\* if it is readable but not truthy, Unknown if and only if it cannot be
\* read; the charge is "{capacity}%" if the capacity is readable and N/A
\* otherwise; each of the two depends on its own input alone.
C4_StrategyA ==
    target_os = "linux" /\ pc # "power" =>
        /\ source = "AC" <=> ac_online.ok /\ Truthy(ac_online.text)
        /\ source = "Battery" <=> ac_online.ok /\ ~Truthy(ac_online.text)
        /\ source = "Unknown" <=> ~ac_online.ok
        /\ capacity.ok =>
               \E n \in 0..Len(capacity.text) :
                   /\ Len(percentage) = n + 1
                   /\ percentage[n + 1] = "%"
                   /\ Stripped(capacity.text, SubSeq(percentage, 1, n))
        /\ ~capacity.ok => percentage = NA

\* the indicator unreadable while the capacity is read, and the converse
C4_Witness ==
    /\ pc = "power_done"
    /\ target_os = "linux"
    /\ ~ac_online.ok
    /\ capacity = Ok(<<"8", "8", "\n">>)
    /\ source = "Unknown"
    /\ percentage = <<"8", "8", "%">>

(***************************************************************************)
(* Claims about calculate_usage (checked under SpecCpu)                    *)
(***************************************************************************)
\* C5: calculate_usage(start, end) is 0.0 whenever total(end) - total(start)
\* is 0, in particular for two identical snapshots, and it never divides by
\* zero.
C5_ZeroDelta ==
    pc = "cpu_done" =>
        /\ usage.den # 0
        /\ Total(snap_end) - Total(snap_start) = 0 => usage.num = 0 /\ usage.den = 1
        /\ snap_end = snap_start => usage.num = 0 /\ usage.den = 1

\* two different snapshots of one total
C5_Witness ==
    /\ pc = "cpu_done"
    /\ snap_end # snap_start
    /\ Total(snap_end) = Total(snap_start)
    /\ Total(snap_start) > 0
    /\ usage = Ratio(0, 1)

ValidPair(s, e) ==
    /\ \A f \in Fields : s[f] >= 0 /\ e[f] >= s[f]
    /\ Total(e) - Total(s) > 0

\* C6: for valid snapshots (counters non-negative, none of end below its
\* value in start) with delta_total > 0, the usage lies in [0, 100].
C6_UsageInRange ==
    pc = "cpu_done" /\ ValidPair(snap_start, snap_end) =>
        /\ usage.den > 0
        /\ 0 <= usage.num
        /\ usage.num <= 100 * usage.den

\* half of the interval idle: a usage of 50
C6_Witness ==
    /\ pc = "cpu_done"
    /\ ValidPair(snap_start, snap_end)
    /\ Total(snap_start) > 0
    /\ snap_end["iowait"] > snap_start["iowait"]
    /\ usage.num = 50 * usage.den

(***************************************************************************)
(* Claims about the polling loop (checked under Spec)                      *)
(***************************************************************************)
\* the lines printed, without the blank lines between snapshots
Printed == SelectSeq(log, LAMBDA l : l.label # "")

Headers == SelectSeq(log, LAMBDA l : l.label = "Snapshot")

ReportOrder == <<"Snapshot", "CPU Usage", "Memory", "Power Source", "Charge">>

\* C8: with --runs n the loop prints exactly n snapshots and then
\* terminates, for every n; without --runs it does not terminate.
C8_RunsSnapshots ==
    /\ pc = "done" => runs # NoRuns /\ Len(Headers) = runs
    /\ runs = NoRuns => pc # "done"

\* C9: every snapshot that is started is completed: after its header the
\* lines CPU Usage, Memory, Power Source and Charge are printed once each,
\* in that order, before the next header or the end of the run, whatever
\* the power read returned; report_power never ends the run.
C9_SnapshotsComplete ==
    /\ pc # "panic"
    /\ \A i \in 1..Len(Printed) :
           Printed[i].label = ReportOrder[((i - 1) % Len(ReportOrder)) + 1]
    /\ pc \in {"header", "count", "sleep", "done"} =>
           Len(Printed) % Len(ReportOrder) = 0
    /\ pc \in {"header", "sleep", "done"} =>
           Len(Printed) = Len(ReportOrder) * count

\* a run of three snapshots: the command fails in one, its text holds
\* nothing to parse in another, and it is parsed in the third
C9_Witness ==
    /\ pc = "done"
    /\ target_os = "macos"
    /\ count = 3
    /\ \E i \in 1..Len(log) : log[i] = Line("Power Source", "Unknown")
    /\ \E i \in 1..Len(log) : log[i] = Line("Charge", "95%")
    /\ \E i \in 1..Len(log) : log[i] = Line("Power Source", "Battery")

====
